---- MODULE Spec2Model ----
(***************************************************************************)
(* A model of the `args` crate (src/src/lib.rs, src/src/options/mod.rs,    *)
(* src/src/errors.rs, src/src/args/validations.rs): the option registry,   *)
(* the resolution loop of Args::parse, the typed accessors and the order   *)
(* validations.                                                            *)
(*                                                                         *)
(* Strings are sequences of characters; the fixed fragments of a message   *)
(* (the literal parts of a format! string) are kept as single elements.    *)
(* Raw argument tokens are given in long form: `--name`, `--name=value`    *)
(* or a free string.  The description and the hint of an option only feed  *)
(* the usage text and are left out.  A panic is a returned record, after   *)
(* which the program takes no further step.                                *)
(***************************************************************************)
EXTENDS Integers, Sequences, FiniteSets, TLC

VARIABLES
    opts,       \* Args.opts:      long name -> Box<Opt>
    opt_names,  \* Args.opt_names: long names in registration order
    options,    \* Args.options:   the getopts::Options the tokenizer parses with
    values,     \* Args.values:    long name -> stored string
    call,       \* the last public call and its arguments
    ret,        \* what that call returned (or signalled)
    parses      \* how many times parse was called

vars == <<opts, opt_names, options, values, call, ret, parses>>

-----------------------------------------------------------------------------
(* Bounds of the model                                                     *)

\* longest raw argument vector handed to parse
MaxArgs == 2
\* registrations are attempted while opt_names is shorter than this
MaxOpts == 3
\* parse is called at most this often on one Args
MaxParses == 2

\* long names the caller registers and refers to
Names == {<<"o", "o">>, <<"p", "p">>}
\* the short name it gives the option of that long name: its first character
ShortOf(long_name) == <<long_name[1]>>
\* strings the caller passes as option arguments
ArgStrs == {<<>>, <<"a">>, <<"b">>}
\* free (non-option) raw tokens
FreeStrs == {<<>>}

-----------------------------------------------------------------------------
(* Option<String>, Result                                                  *)

None == [some |-> FALSE, val |-> <<>>]
Some(s) == [some |-> TRUE, val |-> s]

Ok(v) == [ok |-> TRUE, val |-> v]
Err(e) == [ok |-> FALSE, err |-> e]

\* panic!: the call does not return, the process ends
Panic(msg) == [panic |-> msg]
IsPanic(r) == "panic" \in DOMAIN r

\* default values the caller declares
Defaults == {None, Some(<<>>), Some(<<"d">>)}
\* getopts::Occur
Occurs == {"Req", "Optional", "Multi"}

\* BTreeMap
EmptyMap == [k \in {} |-> <<>>]
MapInsert(m, k, v) == [x \in (DOMAIN m) \cup {k} |-> IF x = k THEN v ELSE m[x]]
MapGet(m, k) == IF k \in DOMAIN m THEN Some(m[k]) ELSE None

\* Vec::contains
Contains(s, x) == \E i \in 1..Len(s) : s[i] = x

-----------------------------------------------------------------------------
(* Constants and errors                                                    *)

SCOPE_PARSE == <<"p", "a", "r", "s", "e">>
SEPARATOR == <<",">>

\* ArgsError::new_with_usage that writes the separators of empty components
ArgsError_new_with_usage_all_separators(scope, msg, usage) ==
    [desc |-> scope \o <<":", " ">> \o msg \o <<"\n", "\n">> \o usage]

\* ArgsError::new_with_usage: the text of the error
ArgsError_new_with_usage(scope, msg, usage) ==
    [desc |-> (IF scope = <<>> THEN <<>> ELSE scope \o <<":", " ">>)
              \o msg
              \o (IF usage = <<>> THEN <<>> ELSE <<"\n", "\n">> \o usage)]

ArgsError_new(scope, msg) == ArgsError_new_with_usage(scope, msg, <<>>)

\* getopts::Fail and its Display
Fail(kind, nm) == [kind |-> kind, name |-> nm]

Fail_to_string(f) ==
    CASE f.kind = "ArgumentMissing" ->
            <<"Argument to option '">> \o f.name \o <<"' missing.">>
      [] f.kind = "UnrecognizedOption" ->
            <<"Unrecognized option: '">> \o f.name \o <<"'.">>
      [] f.kind = "OptionMissing" ->
            <<"Required option '">> \o f.name \o <<"' missing.">>
      [] f.kind = "OptionDuplicated" ->
            <<"Option '">> \o f.name \o <<"' given more than once.">>
      [] f.kind = "UnexpectedArgument" ->
            <<"Option '">> \o f.name \o <<"' does not take an argument.">>

-----------------------------------------------------------------------------
(* Raw argument tokens                                                     *)

\* `--name`
Long(n) == [form |-> "long", name |-> n, inline |-> None]
\* `--name=value`
LongEq(n, v) == [form |-> "long", name |-> n, inline |-> Some(v)]
\* a token that is no option
Free(s) == [form |-> "free", name |-> s, inline |-> None]

Tokens ==
    {Long(n) : n \in Names}
    \cup {LongEq(n, v) : n \in Names, v \in ArgStrs}
    \cup {Free(s) : s \in FreeStrs}

\* the token as the string the caller wrote
TokenText(t) ==
    IF t.form = "free" THEN t.name
    ELSE <<"-", "-">> \o t.name
         \o (IF t.inline.some THEN <<"=">> \o t.inline.val ELSE <<>>)

RawArgs == UNION {[1..n -> Tokens] : n \in 0..MaxArgs}

\* a caller with one option name whose arguments may hold the separator
SepNames == {<<"m", "m">>}
SepStrs == ArgStrs \cup {<<"a", ",", "b">>}

SepTokens ==
    {Long(n) : n \in SepNames}
    \cup {LongEq(n, v) : n \in SepNames, v \in SepStrs}
    \cup {Free(s) : s \in FreeStrs}

SepRawArgs == UNION {[1..n -> SepTokens] : n \in 0..MaxArgs}

-----------------------------------------------------------------------------
(* The tokenizer: getopts::Options and getopts::Matches, as Args uses them *)

\* Options::opt: one more option the tokenizer knows
Options_opt(os, short_name, long_name, hasarg, occur) ==
    Append(os, [short_name |-> short_name, long_name |-> long_name,
                hasarg |-> hasarg, occur |-> occur])

\* Options::optmulti
Options_optmulti(os, short_name, long_name) ==
    Options_opt(os, short_name, long_name, "Yes", "Multi")

\* getopts::Name
Name_Long(s) == [kind |-> "Long", s |-> s]
Name_Short(s) == [kind |-> "Short", s |-> s]

\* Name::from_str: a string of one character is a short name
Name_from_str(nm) == IF Len(nm) = 1 THEN Name_Short(nm) ELSE Name_Long(nm)

\* OptGroup::long_to_short: the name of the option is its long name, and
\* its short name when it has no long name
OptName(o) ==
    IF o.long_name = <<>> THEN Name_Short(o.short_name) ELSE Name_Long(o.long_name)

\* OptGroup::long_to_short: the short name of an option that has both is
\* its alias
OptAliases(o) ==
    IF o.long_name # <<>> /\ o.short_name # <<>>
    THEN {Name_Short(o.short_name)} ELSE {}

\* the first option of that name, else the first one with that alias,
\* 0 when there is none
find_opt(os, nm) ==
    LET main == {i \in 1..Len(os) : OptName(os[i]) = nm}
        alias == {i \in 1..Len(os) : nm \in OptAliases(os[i])}
        found == IF main # {} THEN main ELSE alias
    IN  IF found = {} THEN 0
        ELSE CHOOSE i \in found : \A j \in found : i <= j

\* Optval
Given == [given |-> TRUE, val |-> <<>>]
Val(s) == [given |-> FALSE, val |-> s]

\* the scan of the raw arguments, left to right
RECURSIVE ScanArgs(_, _, _, _)
ScanArgs(os, args, i, vals) ==
    IF i > Len(args) THEN Ok(vals)
    ELSE
        LET cur == args[i] IN
        IF cur.form = "free" THEN ScanArgs(os, args, i + 1, vals)
        ELSE
            LET optid == find_opt(os, Name_Long(cur.name)) IN
            IF optid = 0 THEN Err(Fail("UnrecognizedOption", cur.name))
            ELSE IF os[optid].hasarg = "No" THEN
                IF cur.inline.some
                THEN Err(Fail("UnexpectedArgument", cur.name))
                ELSE ScanArgs(os, args, i + 1,
                              [vals EXCEPT ![optid] = Append(@, Given)])
            ELSE IF cur.inline.some THEN
                ScanArgs(os, args, i + 1,
                         [vals EXCEPT ![optid] = Append(@, Val(cur.inline.val))])
            ELSE IF i + 1 <= Len(args) THEN
                ScanArgs(os, args, i + 2,
                         [vals EXCEPT ![optid] = Append(@, Val(TokenText(args[i + 1])))])
            ELSE Err(Fail("ArgumentMissing", cur.name))

\* the occurrence check that ends Options::parse
OccurFails(os, vals, i) ==
    \/ os[i].occur = "Req" /\ Len(vals[i]) = 0
    \/ os[i].occur # "Multi" /\ Len(vals[i]) > 1

OccurCheck(os, vals) ==
    IF \E i \in 1..Len(os) : OccurFails(os, vals, i)
    THEN LET i == CHOOSE k \in 1..Len(os) :
                    /\ OccurFails(os, vals, k)
                    /\ \A j \in 1..(k - 1) : ~OccurFails(os, vals, j)
         IN  IF os[i].occur = "Req" /\ Len(vals[i]) = 0
             THEN Err(Fail("OptionMissing", os[i].long_name))
             ELSE Err(Fail("OptionDuplicated", os[i].long_name))
    ELSE Ok([opts |-> os, vals |-> vals])

\* Options::parse: Ok(Matches) or Err(Fail)
Options_parse(os, args) ==
    LET scanned == ScanArgs(os, args, 1, [i \in 1..Len(os) |-> <<>>]) IN
    IF scanned.ok THEN OccurCheck(os, scanned.val) ELSE scanned

\* Matches::opt_vals
opt_vals(m, nm) ==
    LET optid == find_opt(m.opts, Name_from_str(nm)) IN
    IF optid = 0 THEN <<>> ELSE m.vals[optid]

\* Matches::opt_vals panics when no option has that name
opt_defined(m, nm) == find_opt(m.opts, Name_from_str(nm)) # 0

\* Matches::opt_present
opt_present(m, nm) == Len(opt_vals(m, nm)) > 0

\* Matches::opt_strs: the arguments given, in the order of occurrence
opt_strs(m, nm) ==
    LET vs == opt_vals(m, nm)
        F[i \in 0..Len(vs)] ==
            IF i = 0 THEN <<>>
            ELSE IF vs[i].given THEN F[i - 1] ELSE Append(F[i - 1], vs[i].val)
    IN  F[Len(vs)]

\* Matches::opt_str: the first argument given
opt_str(m, nm) ==
    LET vs == opt_vals(m, nm) IN
    IF Len(vs) > 0 /\ ~vs[1].given THEN Some(vs[1].val) ELSE None

-----------------------------------------------------------------------------
(* Option descriptors: options::new, Single and Multi                      *)

\* Single::new that makes every option Optional
Single_new_always_optional(short_name, long_name, has_arg, occur, default) ==
    [kind |-> "Single",
     short_name |-> short_name,
     long_name |-> long_name,
     has_arg |-> has_arg,
     occur |-> "Optional",
     default |-> default]

\* Single::new
Single_new(short_name, long_name, has_arg, occur, default) ==
    [kind |-> "Single",
     short_name |-> short_name,
     long_name |-> long_name,
     has_arg |-> has_arg,
     occur |-> IF default.some THEN "Optional" ELSE occur,
     default |-> default]

\* Multi::new
Multi_new(short_name, long_name) ==
    [kind |-> "Multi", short_name |-> short_name, long_name |-> long_name]

\* unsupported!
unsupported(str) == Panic(str \o <<" is not supported yet">>)

\* options::new
options_new(short_name, long_name, has_arg, occur, default) ==
    IF has_arg = "Maybe" THEN unsupported(<<"HasArg::Maybe">>)
    ELSE IF occur # "Multi"
    THEN Single_new(short_name, long_name, has_arg, occur, default)
    ELSE Multi_new(short_name, long_name)

\* Opt::name
Opt_name(opt) == opt.long_name

\* Single::is_required
Single_is_required(opt) == opt.occur = "Req"

\* Multi::is_required
Multi_is_required(opt) == TRUE

\* Opt::is_required
Opt_is_required(opt) ==
    IF opt.kind = "Multi" THEN Multi_is_required(opt) ELSE Single_is_required(opt)

TRUE_STR == <<"t", "r", "u", "e">>
FALSE_STR == <<"f", "a", "l", "s", "e">>

\* bool::to_string
bool_to_string(b) == IF b THEN TRUE_STR ELSE FALSE_STR

\* [String]::join
RECURSIVE Join(_, _)
Join(strs, sep) ==
    IF Len(strs) = 0 THEN <<>>
    ELSE IF Len(strs) = 1 THEN strs[1]
    ELSE strs[1] \o sep \o Join(Tail(strs), sep)

\* Single::parse with a flag that is not given left without a value
Single_parse_absent_flag_none(opt, m) ==
    IF opt.has_arg = "No"
    THEN (IF opt_present(m, opt.long_name) THEN Some(TRUE_STR) ELSE None)
    ELSE LET s == opt_str(m, opt.long_name) IN
         IF s.some THEN s
         ELSE IF opt.default.some THEN opt.default ELSE None

\* Single::parse that takes the default for an empty argument
Single_parse_default_for_empty(opt, m) ==
    IF opt.has_arg = "No" THEN Some(bool_to_string(opt_present(m, opt.long_name)))
    ELSE LET s == opt_str(m, opt.long_name) IN
         IF s.some /\ s.val # <<>> THEN s
         ELSE IF opt.default.some THEN opt.default ELSE s

\* Single::parse
Single_parse(opt, m) ==
    IF opt.has_arg = "No" THEN Some(bool_to_string(opt_present(m, opt.long_name)))
    ELSE LET s == opt_str(m, opt.long_name) IN
         IF s.some THEN s
         ELSE IF opt.default.some THEN opt.default ELSE None

\* Multi::parse that joins the values in reverse
Multi_parse_reversed(opt, m) ==
    LET strs == opt_strs(m, opt.long_name)
        rev == [i \in 1..Len(strs) |-> strs[Len(strs) + 1 - i]]
    IN  IF Len(strs) = 0 THEN None ELSE Some(Join(rev, SEPARATOR))

\* Multi::parse
Multi_parse(opt, m) ==
    LET strs == opt_strs(m, opt.long_name) IN
    IF Len(strs) = 0 THEN None ELSE Some(Join(strs, SEPARATOR))

\* Opt::parse
Opt_parse(opt, m) ==
    IF opt.kind = "Multi" THEN Multi_parse(opt, m) ELSE Single_parse(opt, m)

\* Single::register
Single_register(opt, os) ==
    Options_opt(os, opt.short_name, opt.long_name, opt.has_arg, opt.occur)

\* Multi::register
Multi_register(opt, os) == Options_optmulti(os, opt.short_name, opt.long_name)

\* Opt::register
Opt_register(opt, os) ==
    IF opt.kind = "Multi" THEN Multi_register(opt, os) ELSE Single_register(opt, os)

-----------------------------------------------------------------------------
(* Args: construction, registration, parse                                 *)

\* Args::new
Init ==
    /\ opts = EmptyMap
    /\ opt_names = <<>>
    /\ options = <<>>
    /\ values = EmptyMap
    /\ call = [op |-> "new"]
    /\ ret = [log |-> "debug"]
    /\ parses = 0

\* Args::register_opt without the check for a registered name
register_opt_unchecked(opt) ==
    /\ options' = Opt_register(opt, options)
    /\ opt_names' = Append(opt_names, Opt_name(opt))
    /\ opts' = MapInsert(opts, Opt_name(opt), opt)
    /\ ret' = [log |-> "debug"]

\* Args::register_opt that does not keep the descriptor of the name
register_opt_name_only(opt) ==
    IF ~Contains(opt_names, Opt_name(opt))
    THEN /\ options' = Opt_register(opt, options)
         /\ opt_names' = Append(opt_names, Opt_name(opt))
         /\ opts' = opts
         /\ ret' = [log |-> "debug"]
    ELSE /\ UNCHANGED <<options, opt_names, opts>>
         /\ ret' = [log |-> "warn"]

\* Args::register_opt that lets a later descriptor take the place of the first
register_opt_replacing(opt) ==
    IF ~Contains(opt_names, Opt_name(opt))
    THEN /\ options' = Opt_register(opt, options)
         /\ opt_names' = Append(opt_names, Opt_name(opt))
         /\ opts' = MapInsert(opts, Opt_name(opt), opt)
         /\ ret' = [log |-> "debug"]
    ELSE /\ opts' = MapInsert(opts, Opt_name(opt), opt)
         /\ UNCHANGED <<options, opt_names>>
         /\ ret' = [log |-> "warn"]

\* Args::register_opt; the log line it writes is what the caller can observe
register_opt(opt) ==
    IF ~Contains(opt_names, Opt_name(opt))
    THEN /\ options' = Opt_register(opt, options)
         /\ opt_names' = Append(opt_names, Opt_name(opt))
         /\ opts' = MapInsert(opts, Opt_name(opt), opt)
         /\ ret' = [log |-> "debug"]
    ELSE /\ UNCHANGED <<options, opt_names, opts>>
         /\ ret' = [log |-> "warn"]

\* The caller follows the crate's documentation (lib.rs, lines 5-8): it
\* registers its options first and parses once they are all registered.

\* a panic of an earlier call ended the process
Panicked == call.op \in {"flag", "option", "parse"} /\ IsPanic(ret)

\* register_opt(options::new(..)): a panic of options::new ends the call
Register(opt) ==
    IF IsPanic(opt)
    THEN ret' = opt /\ UNCHANGED <<options, opt_names, opts>>
    ELSE register_opt(opt)

\* Args::flag
flag(short_name, long_name) ==
    /\ ~Panicked
    /\ parses = 0
    /\ Len(opt_names) < MaxOpts
    /\ call' = [op |-> "flag", short_name |-> short_name, long_name |-> long_name]
    /\ Register(options_new(short_name, long_name, "No", "Optional", None))
    /\ UNCHANGED <<values, parses>>

\* Args::option
option(short_name, long_name, occur, default) ==
    /\ ~Panicked
    /\ parses = 0
    /\ Len(opt_names) < MaxOpts
    /\ call' = [op |-> "option", short_name |-> short_name, long_name |-> long_name,
                occur |-> occur, default |-> default]
    /\ Register(options_new(short_name, long_name, "Yes", occur, default))
    /\ UNCHANGED <<values, parses>>

\* the error Args::parse builds from a getopts::Fail
ParseError(f) == ArgsError_new(SCOPE_PARSE, Fail_to_string(f))

\* the loop of Args::parse with the option's name as the scope of its error
RECURSIVE Resolve_scoped_by_name(_, _, _)
Resolve_scoped_by_name(m, i, vals) ==
    IF i > Len(opt_names) THEN [values |-> vals, ret |-> Ok(<<>>)]
    ELSE
        LET opt_name == opt_names[i]
            opt == opts[opt_name]
            parsed == Opt_parse(opt, m)
            value == IF parsed.some THEN parsed.val ELSE <<>>
        IN
        IF value # <<>>
        THEN Resolve_scoped_by_name(m, i + 1, MapInsert(vals, opt_name, value))
        ELSE IF Opt_is_required(opt)
        THEN [values |-> vals,
              ret |-> Err(ArgsError_new(opt_name,
                            Fail_to_string(Fail("ArgumentMissing", opt_name))))]
        ELSE Resolve_scoped_by_name(m, i + 1, vals)

\* the loop of Args::parse that goes over opt_names from the last to the first
RECURSIVE Resolve_backwards(_, _, _)
Resolve_backwards(m, i, vals) ==
    IF i > Len(opt_names) THEN [values |-> vals, ret |-> Ok(<<>>)]
    ELSE
        LET opt_name == opt_names[Len(opt_names) + 1 - i]
            opt == opts[opt_name]
            parsed == Opt_parse(opt, m)
            value == IF parsed.some THEN parsed.val ELSE <<>>
        IN
        IF value # <<>>
        THEN Resolve_backwards(m, i + 1, MapInsert(vals, opt_name, value))
        ELSE IF Opt_is_required(opt)
        THEN [values |-> vals,
              ret |-> Err(ParseError(Fail("ArgumentMissing", opt_name)))]
        ELSE Resolve_backwards(m, i + 1, vals)

\* the loop of Args::parse without the test of is_required
RECURSIVE Resolve_unchecked(_, _, _)
Resolve_unchecked(m, i, vals) ==
    IF i > Len(opt_names) THEN [values |-> vals, ret |-> Ok(<<>>)]
    ELSE
        LET opt_name == opt_names[i]
            parsed == Opt_parse(opts[opt_name], m)
            value == IF parsed.some THEN parsed.val ELSE <<>>
        IN
        IF value # <<>>
        THEN Resolve_unchecked(m, i + 1, MapInsert(vals, opt_name, value))
        ELSE Resolve_unchecked(m, i + 1, vals)

\* the loop of Args::parse over opt_names, from position i, writing into vals
RECURSIVE Resolve(_, _, _)
Resolve(m, i, vals) ==
    IF i > Len(opt_names) THEN [values |-> vals, ret |-> Ok(<<>>)]
    ELSE
        LET opt_name == opt_names[i]
            found == MapGet(opts, opt_name)
        IN
        IF ~found.some
        THEN [values |-> vals,
              ret |-> Err(ParseError(Fail("UnrecognizedOption", opt_name)))]
        ELSE
            LET opt == found.val
                parsed == Opt_parse(opt, m)
                value == IF parsed.some THEN parsed.val ELSE <<>>
            IN
            IF ~opt_defined(m, Opt_name(opt))
            THEN [values |-> vals,
                  ret |-> Panic(<<"No option '">> \o Opt_name(opt) \o <<"' defined">>)]
            ELSE IF value # <<>>
            THEN Resolve(m, i + 1, MapInsert(vals, opt_name, value))
            ELSE IF Opt_is_required(opt)
            THEN [values |-> vals,
                  ret |-> Err(ParseError(Fail("ArgumentMissing", opt_name)))]
            ELSE Resolve(m, i + 1, vals)

\* Args::parse that empties the store when the tokenizer rejects the arguments
Args_parse_clearing(raw_args) ==
    LET matches == Options_parse(options, raw_args) IN
    IF ~matches.ok
    THEN [values |-> EmptyMap, ret |-> Err(ParseError(matches.err))]
    ELSE Resolve(matches.val, 1, values)

\* Args::parse that passes the tokenizer's message on without a scope
Args_parse_unscoped(raw_args) ==
    LET matches == Options_parse(options, raw_args) IN
    IF ~matches.ok
    THEN [values |-> values,
          ret |-> Err(ArgsError_new(<<>>, Fail_to_string(matches.err)))]
    ELSE Resolve(matches.val, 1, values)

\* Options::parse panics on an option that has neither name
Unnamed(os) ==
    \E i \in 1..Len(os) : os[i].short_name = <<>> /\ os[i].long_name = <<>>

\* Args::parse: the store it leaves and the result it returns
Args_parse(raw_args) ==
    LET matches == Options_parse(options, raw_args) IN
    IF Unnamed(options)
    THEN [values |-> values,
          ret |-> Panic(<<"this long-format option was given no name">>)]
    ELSE IF ~matches.ok
    THEN [values |-> values, ret |-> Err(ParseError(matches.err))]
    ELSE Resolve(matches.val, 1, values)

parse(raw_args) ==
    /\ ~Panicked
    /\ parses < MaxParses
    /\ parses' = parses + 1
    /\ call' = [op |-> "parse", raw_args |-> raw_args]
    /\ values' = Args_parse(raw_args).values
    /\ ret' = Args_parse(raw_args).ret
    /\ UNCHANGED <<opts, opt_names, options>>

-----------------------------------------------------------------------------
(* Typed accessors                                                         *)

\* the types a stored string is cast to
Types == {"String", "bool", "i32"}

Digits == <<"0", "1", "2", "3", "4", "5", "6", "7", "8", "9">>
IsDigit(c) == \E d \in 1..10 : Digits[d] = c
DigitVal(c) == (CHOOSE d \in 1..10 : Digits[d] = c) - 1

\* the number a string of digits denotes
RECURSIVE DigitsVal(_)
DigitsVal(s) ==
    IF Len(s) = 0 THEN 0
    ELSE 10 * DigitsVal(SubSeq(s, 1, Len(s) - 1)) + DigitVal(s[Len(s)])

I32_MAX == 2147483646 + 1
I32_MIN == (0 - I32_MAX) - 1

\* i32::from_str: an optional sign, then one digit or more, within the range
i32_from_str(s) ==
    LET signed == Len(s) > 0 /\ s[1] \in {"+", "-"}
        digits == IF signed THEN Tail(s) ELSE s
        n == IF signed /\ s[1] = "-" THEN 0 - DigitsVal(digits) ELSE DigitsVal(digits)
    IN  IF Len(digits) = 0 \/ \E i \in 1..Len(digits) : ~IsDigit(digits[i])
        THEN None
        ELSE IF n < I32_MIN \/ n > I32_MAX THEN None
        ELSE Some(n)

\* T::from_str: Some(value) or None
from_str(T, s) ==
    CASE T = "String" -> Some(s)
      [] T = "bool" -> IF s = TRUE_STR THEN Some(TRUE)
                       ELSE IF s = FALSE_STR THEN Some(FALSE)
                       ELSE None
      [] T = "i32" -> i32_from_str(s)

\* Args::has_value
has_value(opt_name) == MapGet(values, opt_name).some

\* the two messages of the accessors
NoValueError(opt_name) == ArgsError_new(opt_name, <<"does not have a value">>)
CastError(opt_name, s) ==
    ArgsError_new(opt_name, <<"unable to parse '">> \o s \o <<"'">>)

\* Args::value_of that reports a string that does not cast as no value
value_of_cast_as_missing(T, opt_name) ==
    LET value_string == MapGet(values, opt_name) IN
    IF ~value_string.some THEN Err(NoValueError(opt_name))
    ELSE LET cast == from_str(T, value_string.val) IN
         IF cast.some THEN Ok(cast.val)
         ELSE Err(NoValueError(opt_name))

\* Args::value_of
value_of(T, opt_name) ==
    LET value_string == MapGet(values, opt_name) IN
    IF ~value_string.some THEN Err(NoValueError(opt_name))
    ELSE LET cast == from_str(T, value_string.val) IN
         IF cast.some THEN Ok(cast.val)
         ELSE Err(CastError(opt_name, value_string.val))

\* str::split on a one-character separator
RECURSIVE Split(_, _)
Split(s, sep) ==
    IF \E i \in 1..Len(s) : s[i] = sep[1]
    THEN LET i == CHOOSE k \in 1..Len(s) :
                    /\ s[k] = sep[1]
                    /\ \A j \in 1..(k - 1) : s[j] # sep[1]
         IN  <<SubSeq(s, 1, i - 1)>> \o Split(SubSeq(s, i + 1, Len(s)), sep)
    ELSE <<s>>

\* the cast of all the pieces that reports the last piece that fails
CastAll_last_error(T, opt_name, pieces) ==
    LET bad == {k \in 1..Len(pieces) : ~from_str(T, pieces[k]).some} IN
    IF bad = {}
    THEN Ok([k \in 1..Len(pieces) |-> from_str(T, pieces[k]).val])
    ELSE LET k == CHOOSE x \in bad : \A y \in bad : y <= x
         IN  Err(CastError(opt_name, pieces[k]))

\* collect::<Result<Vec<T>, ArgsError>>: the first error, or all the values
RECURSIVE CastAll(_, _, _)
CastAll(T, opt_name, pieces) ==
    IF Len(pieces) = 0 THEN Ok(<<>>)
    ELSE LET cast == from_str(T, pieces[1]) IN
         IF ~cast.some THEN Err(CastError(opt_name, pieces[1]))
         ELSE LET rest == CastAll(T, opt_name, Tail(pieces)) IN
              IF rest.ok THEN Ok(<<cast.val>> \o rest.val) ELSE rest

\* Args::values_of
values_of(T, opt_name) ==
    LET values_str == MapGet(values, opt_name) IN
    IF ~values_str.some THEN Err(NoValueError(opt_name))
    ELSE CastAll(T, opt_name, Split(values_str.val, SEPARATOR))

\* Args::optional_value_of without the test for a stored value
optional_value_of_unguarded(T, opt_name) ==
    LET r == value_of(T, opt_name) IN
    IF r.ok THEN Ok(Some(r.val)) ELSE r

\* Args::optional_value_of
optional_value_of(T, opt_name) ==
    IF has_value(opt_name)
    THEN LET r == value_of(T, opt_name) IN
         IF r.ok THEN Ok(Some(r.val)) ELSE r
    ELSE Ok(None)

-----------------------------------------------------------------------------
(* Validations: Order and OrderValidation                                  *)

\* Order
Orders == {"GreaterThan", "GreaterThanOrEqual", "LessThan", "LessThanOrEqual"}

\* Order::compare with the bound and the value taken for each other
Order_compare_swapped(order, bound, value) ==
    CASE order = "GreaterThan" -> bound > value
      [] order = "GreaterThanOrEqual" -> bound >= value
      [] order = "LessThan" -> bound < value
      [] order = "LessThanOrEqual" -> bound <= value

\* Order::compare
Order_compare(order, bound, value) ==
    CASE order = "GreaterThan" -> value > bound
      [] order = "GreaterThanOrEqual" -> value >= bound
      [] order = "LessThan" -> value < bound
      [] order = "LessThanOrEqual" -> value <= bound

\* Display for Order
Order_fmt(order) ==
    CASE order = "GreaterThan" -> <<"greater than">>
      [] order = "GreaterThanOrEqual" -> <<"greater than or equal to">>
      [] order = "LessThan" -> <<"less than">>
      [] order = "LessThanOrEqual" -> <<"less than or equal to">>

\* OrderValidation::new
OrderValidation_new(order, bound) == [bound |-> bound, order |-> order]

\* OrderValidation::is_valid
OrderValidation_is_valid(validation, value) ==
    Order_compare(validation.order, validation.bound, value)

\* Validation::is_invalid
Validation_is_invalid(validation, value) ==
    ~OrderValidation_is_valid(validation, value)

\* Display for i32
RECURSIVE nat_to_string(_)
nat_to_string(n) ==
    IF n < 10 THEN <<Digits[n + 1]>>
    ELSE nat_to_string(n \div 10) \o <<Digits[(n % 10) + 1]>>

i32_to_string(n) == IF n < 0 THEN <<"-">> \o nat_to_string(0 - n) ELSE nat_to_string(n)

\* OrderValidation::error
OrderValidation_error(validation, value) ==
    ArgsError_new(<<"order invalid">>,
                  i32_to_string(value) \o <<" is not ">>
                  \o Order_fmt(validation.order) \o <<" ">>
                  \o i32_to_string(validation.bound))

\* the loop over the validations that goes on to the last invalid one
Validate_last_invalid(validations, i, value) ==
    LET bad == {k \in i..Len(validations) :
                    Validation_is_invalid(validations[k], value)}
    IN  IF bad = {} THEN Ok(value)
        ELSE LET k == CHOOSE x \in bad : \A y \in bad : y <= x
             IN  Err(OrderValidation_error(validations[k], value))

\* the loop of Args::validated_value_of over the validations, from position i
RECURSIVE Validate(_, _, _)
Validate(validations, i, value) ==
    IF i > Len(validations) THEN Ok(value)
    ELSE IF Validation_is_invalid(validations[i], value)
    THEN Err(OrderValidation_error(validations[i], value))
    ELSE Validate(validations, i + 1, value)

\* Args::validated_value_of that validates 0 when value_of has no value
validated_value_of_validates_anyway(T, opt_name, validations) ==
    LET r == value_of(T, opt_name)
        v == Validate(validations, 1, IF r.ok THEN r.val ELSE 0)
    IN  IF v.ok THEN r ELSE v

\* Args::validated_value_of
validated_value_of(T, opt_name, validations) ==
    LET r == value_of(T, opt_name) IN
    IF r.ok THEN Validate(validations, 1, r.val) ELSE r

\* Args::optional_validated_value_of without the test for a stored value
optional_validated_value_of_unguarded(T, opt_name, validations) ==
    LET r == validated_value_of(T, opt_name, validations) IN
    IF r.ok THEN Ok(Some(r.val)) ELSE r

\* Args::optional_validated_value_of
optional_validated_value_of(T, opt_name, validations) ==
    IF has_value(opt_name)
    THEN LET r == validated_value_of(T, opt_name, validations) IN
         IF r.ok THEN Ok(Some(r.val)) ELSE r
    ELSE Ok(None)

-----------------------------------------------------------------------------
(* The caller                                                              *)

Next ==
    \/ \E n \in Names : flag(ShortOf(n), n)
    \/ \E n \in Names, occur \in Occurs, default \in Defaults :
            option(ShortOf(n), n, occur, default)
    \/ \E raw_args \in RawArgs : parse(raw_args)

Spec == Init /\ [][Next]_vars

\* the same calls, by the caller whose arguments may hold the separator
NextSep ==
    \/ \E n \in SepNames : flag(ShortOf(n), n)
    \/ \E n \in SepNames, occur \in Occurs, default \in Defaults :
            option(ShortOf(n), n, occur, default)
    \/ \E raw_args \in SepRawArgs : parse(raw_args)

SpecSep == Init /\ [][NextSep]_vars

-----------------------------------------------------------------------------
(* The caller that reads the store through the typed accessors             *)

\* the long name this caller registers, and names it never registers
AccNames == {<<"n", "n">>}
AskNames == AccNames \cup {<<"x", "x">>, <<>>}
\* the strings it passes as option arguments
AccStrs == {<<>>, <<"0">>, <<"1">>, <<"a">>, <<"0", ",", "a">>}

AccTokens ==
    {Long(n) : n \in AccNames}
    \cup {LongEq(n, v) : n \in AccNames, v \in AccStrs}
    \cup {Free(s) : s \in FreeStrs}

AccRawArgs == UNION {[1..n -> AccTokens] : n \in 0..MaxArgs}

\* longest list of validations handed to an accessor
MaxValidations == 2

\* the validations it builds, and the lists of them it passes
Validations ==
    {OrderValidation_new("GreaterThan", 0),
     OrderValidation_new("GreaterThanOrEqual", 1),
     OrderValidation_new("LessThan", 1),
     OrderValidation_new("LessThanOrEqual", 0)}

ValidationLists == UNION {[1..n -> Validations] : n \in 0..MaxValidations}

\* a call of an accessor that leaves an empty entry for a name without one
Accessor_inserting(c, result) ==
    /\ ~Panicked
    /\ call' = c
    /\ ret' = result
    /\ values' = IF c.opt_name \in DOMAIN values THEN values
                  ELSE MapInsert(values, c.opt_name, <<>>)
    /\ UNCHANGED <<opts, opt_names, options, parses>>

\* a call of an accessor: &self, nothing is written
Accessor(c, result) ==
    /\ ~Panicked
    /\ call' = c
    /\ ret' = result
    /\ UNCHANGED <<opts, opt_names, options, values, parses>>

Call_has_value(opt_name) ==
    Accessor([op |-> "has_value", opt_name |-> opt_name],
             has_value(opt_name))

Call_value_of(T, opt_name) ==
    Accessor([op |-> "value_of", T |-> T, opt_name |-> opt_name],
             value_of(T, opt_name))

Call_optional_value_of(T, opt_name) ==
    Accessor([op |-> "optional_value_of", T |-> T, opt_name |-> opt_name],
             optional_value_of(T, opt_name))

Call_values_of(T, opt_name) ==
    Accessor([op |-> "values_of", T |-> T, opt_name |-> opt_name],
             values_of(T, opt_name))

Call_validated_value_of(opt_name, validations) ==
    Accessor([op |-> "validated_value_of", T |-> "i32",
              opt_name |-> opt_name, validations |-> validations],
             validated_value_of("i32", opt_name, validations))

Call_optional_validated_value_of(opt_name, validations) ==
    Accessor([op |-> "optional_validated_value_of", T |-> "i32",
              opt_name |-> opt_name, validations |-> validations],
             optional_validated_value_of("i32", opt_name, validations))

NextAcc ==
    \/ \E n \in AccNames : flag(ShortOf(n), n)
    \/ \E n \in AccNames, occur \in Occurs : option(ShortOf(n), n, occur, None)
    \/ \E raw_args \in AccRawArgs : parse(raw_args)
    \/ \E n \in AskNames : Call_has_value(n)
    \/ \E T \in Types, n \in AskNames : Call_value_of(T, n)
    \/ \E T \in Types, n \in AskNames : Call_optional_value_of(T, n)
    \/ \E T \in Types, n \in AskNames : Call_values_of(T, n)
    \/ \E n \in AskNames, vs \in ValidationLists : Call_validated_value_of(n, vs)
    \/ \E n \in AskNames, vs \in ValidationLists :
            Call_optional_validated_value_of(n, vs)

SpecAcc == Init /\ [][NextAcc]_vars

-----------------------------------------------------------------------------
(* The caller that builds an OrderValidation and applies it                *)

\* the bounds and values are the integers from -MaxInt to MaxInt
MaxInt == 3
IntRange == (0 - MaxInt)..MaxInt

Call_is_valid(order, bound, value) ==
    /\ call' = [op |-> "is_valid", order |-> order, bound |-> bound, value |-> value]
    /\ ret' = OrderValidation_is_valid(OrderValidation_new(order, bound), value)
    /\ UNCHANGED <<opts, opt_names, options, values, parses>>

Call_is_invalid(order, bound, value) ==
    /\ call' = [op |-> "is_invalid", order |-> order, bound |-> bound, value |-> value]
    /\ ret' = Validation_is_invalid(OrderValidation_new(order, bound), value)
    /\ UNCHANGED <<opts, opt_names, options, values, parses>>

NextOrd ==
    \/ \E order \in Orders, bound \in IntRange, value \in IntRange :
            Call_is_valid(order, bound, value)
    \/ \E order \in Orders, bound \in IntRange, value \in IntRange :
            Call_is_invalid(order, bound, value)

SpecOrd == Init /\ [][NextOrd]_vars

-----------------------------------------------------------------------------
(* The caller that builds errors                                           *)

\* the scopes, messages and usages it builds them from
ErrStrs == {<<>>, <<"a">>, <<"b">>, <<"a", "b">>, <<":", " ">>}

Call_ArgsError_new(scope, msg) ==
    /\ call' = [op |-> "ArgsError::new", scope |-> scope, msg |-> msg, usage |-> <<>>]
    /\ ret' = ArgsError_new(scope, msg)
    /\ UNCHANGED <<opts, opt_names, options, values, parses>>

Call_ArgsError_new_with_usage(scope, msg, usage) ==
    /\ call' = [op |-> "ArgsError::new_with_usage",
                scope |-> scope, msg |-> msg, usage |-> usage]
    /\ ret' = ArgsError_new_with_usage(scope, msg, usage)
    /\ UNCHANGED <<opts, opt_names, options, values, parses>>

NextErr ==
    \/ \E scope \in ErrStrs, msg \in ErrStrs : Call_ArgsError_new(scope, msg)
    \/ \E scope \in ErrStrs, msg \in ErrStrs, usage \in ErrStrs :
            Call_ArgsError_new_with_usage(scope, msg, usage)

SpecErr == Init /\ [][NextErr]_vars

-----------------------------------------------------------------------------
(* The caller that leaves out a name of an option ("" for none)            *)

\* the short names and the long names it gives its options
NoneShorts == {<<>>, <<"q">>}
NoneLongs == {<<>>, <<"q", "q">>}

NoneTokens ==
    {Long(n) : n \in NoneLongs \ {<<>>}}
    \cup {LongEq(n, v) : n \in NoneLongs \ {<<>>}, v \in ArgStrs}

NoneRawArgs == UNION {[1..n -> NoneTokens] : n \in 0..MaxArgs}

NextNone ==
    \/ \E s \in NoneShorts, n \in NoneLongs : flag(s, n)
    \/ \E s \in NoneShorts, n \in NoneLongs, occur \in Occurs :
            option(s, n, occur, None)
    \/ \E raw_args \in NoneRawArgs : parse(raw_args)
    \/ \E n \in NoneLongs : Call_has_value(n)
    \/ \E T \in Types, n \in NoneLongs : Call_value_of(T, n)
    \/ \E T \in Types, n \in NoneLongs : Call_optional_value_of(T, n)
    \/ \E T \in Types, n \in NoneLongs : Call_values_of(T, n)
    \/ \E n \in NoneLongs, vs \in ValidationLists : Call_validated_value_of(n, vs)
    \/ \E n \in NoneLongs, vs \in ValidationLists :
            Call_optional_validated_value_of(n, vs)

SpecNone == Init /\ [][NextNone]_vars

-----------------------------------------------------------------------------
(* What the claims speak of                                                *)

AfterParse == call.op = "parse"
ParseOk == AfterParse /\ ret.ok
ParseErr == AfterParse /\ ~ret.ok

\* the tokenizer's scan and result for the arguments of the last parse
LastScan == ScanArgs(options, call.raw_args, 1, [i \in 1..Len(options) |-> <<>>])
LastMatches == Options_parse(options, call.raw_args)

\* how often the scan of the last parse saw option nm
Occurrences(nm) == Len(LastScan.val[find_opt(options, Name_Long(nm))])

Registered == DOMAIN opts
IsFlag(opt) == opt.kind = "Single" /\ opt.has_arg = "No"
IsSingleValue(opt) == opt.kind = "Single" /\ opt.has_arg = "Yes"
IsMulti(opt) == opt.kind = "Multi"

\* a registration that took effect, and one that was ignored
Registers == call.op \in {"flag", "option"} /\ ret.log = "debug"
Ignored == call.op \in {"flag", "option"} /\ ret.log = "warn"

-----------------------------------------------------------------------------
(* C1: a MultiValue option that does not occur                             *)

\* the option resolves to a value that is stored
Resolves(nm) ==
    LET parsed == Opt_parse(opts[nm], LastMatches.val) IN
    parsed.some /\ parsed.val # <<>>

\* a Multi option the accepted arguments do not mention
AbsentMulti(nm) ==
    /\ nm \in Registered
    /\ IsMulti(opts[nm])
    /\ LastMatches.ok
    /\ opt_strs(LastMatches.val, nm) = <<>>

\* C1: when the tokenizer accepts the arguments and every option other than
\* the Multi options that do not occur has a value or is not required, the
\* parse returns Ok, and a Multi option that does not occur has no stored
\* value after the first parse.
C1_AbsentMultiParses ==
    (/\ AfterParse
     /\ parses = 1
     /\ LastMatches.ok
     /\ \E nm \in Registered : AbsentMulti(nm)
     /\ \A nm \in Registered :
            \/ AbsentMulti(nm)
            \/ Resolves(nm)
            \/ (~IsMulti(opts[nm]) /\ ~Single_is_required(opts[nm])))
    => (/\ ret.ok
        /\ \A nm \in Registered : AbsentMulti(nm) => ~has_value(nm))

-----------------------------------------------------------------------------
(* C2: the store after a second parse                                      *)

\* C2: after a successful parse the store is what that parse alone writes
\* into an empty store.
C2_StoreReplaced ==
    ParseOk => values = Resolve(LastMatches.val, 1, EmptyMap).values

-----------------------------------------------------------------------------
(* C3: the store after a failed parse                                      *)

\* C3: a parse that returns an error leaves the store as it was before the
\* call.
C3_FailedParseKeepsStore ==
    [][(call'.op = "parse" /\ ~ret'.ok) => values' = values]_vars

-----------------------------------------------------------------------------
(* C4: flags                                                               *)

\* C4: after a successful parse every registered flag is stored under its
\* long name, as "true" when the arguments hold the flag and as "false" when
\* they do not, and value_of::<bool> returns that boolean.
C4_FlagStoredAsPresence ==
    ParseOk =>
        \A nm \in Registered :
            IsFlag(opts[nm]) =>
                LET present == Occurrences(nm) > 0 IN
                /\ has_value(nm)
                /\ values[nm] = (IF present THEN TRUE_STR ELSE FALSE_STR)
                /\ value_of("bool", nm) = Ok(present)

\* a successful parse with one flag given and another one not given
C4_Witness ==
    /\ ParseOk
    /\ \E f, g \in Registered :
        /\ IsFlag(opts[f]) /\ IsFlag(opts[g])
        /\ Occurrences(f) > 0 /\ value_of("bool", f) = Ok(TRUE)
        /\ Occurrences(g) = 0 /\ value_of("bool", g) = Ok(FALSE)

-----------------------------------------------------------------------------
(* C5: SingleValue options                                                 *)

\* C5: after a successful parse a SingleValue option holds the matched
\* string when the arguments give it one, else its default when one was
\* declared, else nothing (a matched string or a default that is empty is
\* left aside: the store holds no empty value).
C5_SingleValueResolved ==
    ParseOk =>
        \A nm \in Registered :
            IsSingleValue(opts[nm]) =>
                LET matched == opt_str(LastMatches.val, nm)
                    default == opts[nm].default
                IN
                IF matched.some
                THEN matched.val # <<>> =>
                        value_of("String", nm) = Ok(matched.val)
                ELSE IF default.some
                THEN default.val # <<>> =>
                        value_of("String", nm) = Ok(default.val)
                ELSE ~has_value(nm)

-----------------------------------------------------------------------------
(* C6: a Required SingleValue option that does not occur                   *)

\* a SingleValue option declared Required, with no default
RequiredSingle(nm) ==
    /\ nm \in Registered
    /\ IsSingleValue(opts[nm])
    /\ opts[nm].occur = "Req"
    /\ ~opts[nm].default.some

\* the text of the error for a required option that is missing
MissingText(nm) ==
    <<"p", "a", "r", "s", "e", ":", " ", "Required option '">>
    \o nm \o <<"' missing.">>

\* C6: an option call with Occur::Req and no default registers a Required
\* SingleValue option, and a parse whose arguments hold no occurrence of
\* such an option returns an error; when the arguments
\* are otherwise well formed (the scan accepts them and gives no option
\* twice) the error reports a required option as missing.
C6_RequiredAbsentFails ==
    /\ (Registers /\ call.op = "option" /\ call.occur = "Req" /\ ~call.default.some)
       => RequiredSingle(call.long_name)
    /\ AfterParse =>
        \A nm \in Registered :
            (RequiredSingle(nm) /\ (LastScan.ok => Occurrences(nm) = 0)) =>
                /\ ~ret.ok
                /\ (/\ LastScan.ok
                    /\ \A k \in Registered : Occurrences(k) <= 1)
                   => \E k \in Registered :
                        /\ RequiredSingle(k)
                        /\ Occurrences(k) = 0
                        /\ ret.err.desc = MissingText(k)

\* a parse that failed for a Required option the accepted scan did not see
C6_Witness ==
    /\ ParseErr
    /\ LastScan.ok
    /\ \E nm \in Registered :
        /\ RequiredSingle(nm)
        /\ Occurrences(nm) = 0
        /\ ret.err.desc = MissingText(nm)

-----------------------------------------------------------------------------
(* C7: a default makes the option Optional                                 *)

\* C7: an option registered with a (non-empty) default is not required,
\* whatever occurrence was declared, and when it is the only option, a parse
\* of accepted arguments that do not hold it returns Ok and stores the
\* default.
C7_DefaultMakesOptional ==
    [][(/\ call.op = "option"
        /\ ret.log = "debug"
        /\ call.default.some
        /\ call.default.val # <<>>)
       => (/\ ~Opt_is_required(opts[call.long_name])
           /\ (/\ call'.op = "parse"
               /\ Len(opt_names) = 1
               /\ Options_parse(options, call'.raw_args).ok
               /\ opt_vals(Options_parse(options, call'.raw_args).val,
                           call.long_name) = <<>>)
              => (/\ ret'.ok
                  /\ MapGet(values', call.long_name) = call.default))]_vars

-----------------------------------------------------------------------------
(* C8: registering a long name twice                                       *)

\* C8: a flag or option call whose long name is already registered changes
\* neither the descriptors, nor their order, nor the tokenizer's options,
\* nor the store, and writes the warning.
C8_DuplicateIgnored ==
    [][(/\ call'.op \in {"flag", "option"}
        /\ Contains(opt_names, call'.long_name))
       => (/\ opts' = opts
           /\ opt_names' = opt_names
           /\ options' = options
           /\ values' = values
           /\ ret'.log = "warn")]_vars

\* a long name registered as an option was registered again as a flag
C8_Witness ==
    /\ call.op = "flag"
    /\ ret.log = "warn"
    /\ ~IsFlag(opts[call.long_name])
    /\ Len(opt_names) = 1

-----------------------------------------------------------------------------
(* C9: the values of a MultiValue option                                   *)

\* a string that is not empty and holds no separator
Clean(s) == s # <<>> /\ \A i \in 1..Len(s) : s[i] # SEPARATOR[1]

\* the arguments the accepted scan gave to option nm, in order
GivenTo(nm) == opt_strs(LastMatches.val, nm)

\* C9: a parse whose accepted arguments give every registered option, all of
\* them MultiValue, at least one value, every value clean, returns Ok; and
\* after a successful parse values_of::<String> of a MultiValue option given
\* clean values returns exactly those values in the order they were given.
C9_MultiValuesInOrder ==
    /\ (/\ AfterParse
        /\ LastMatches.ok
        /\ \A nm \in Registered :
            /\ IsMulti(opts[nm])
            /\ GivenTo(nm) # <<>>
            /\ \A i \in 1..Len(GivenTo(nm)) : Clean(GivenTo(nm)[i]))
       => ret.ok
    /\ ParseOk =>
        \A nm \in Registered :
            (/\ IsMulti(opts[nm])
             /\ GivenTo(nm) # <<>>
             /\ \A i \in 1..Len(GivenTo(nm)) : Clean(GivenTo(nm)[i]))
            => values_of("String", nm) = Ok(GivenTo(nm))

\* a successful parse that gave a MultiValue option two different values
C9_Witness ==
    /\ ParseOk
    /\ \E nm \in Registered :
        /\ IsMulti(opts[nm])
        /\ GivenTo(nm) = << <<"a">>, <<"b">> >>
        /\ values_of("String", nm) = Ok(<< <<"a">>, <<"b">> >>)

-----------------------------------------------------------------------------
(* C10: the default of a MultiValue option                                 *)

\* C10: after an option is registered with Occur::Multi and a (non-empty)
\* default, a parse of accepted arguments that do not hold it stores the
\* default under its name.
C10_MultiDefaultStored ==
    [][(/\ call.op = "option"
        /\ ret.log = "debug"
        /\ call.occur = "Multi"
        /\ call.default.some
        /\ call.default.val # <<>>
        /\ call'.op = "parse"
        /\ Options_parse(options, call'.raw_args).ok
        /\ opt_vals(Options_parse(options, call'.raw_args).val,
                    call.long_name) = <<>>)
       => MapGet(values', call.long_name) = call.default]_vars

-----------------------------------------------------------------------------
(* C11: the validations are applied in order                               *)

\* the positions of the validations of the last call that the value fails
Invalid(value) ==
    {i \in 1..Len(call.validations) :
        ~Order_compare(call.validations[i].order, call.validations[i].bound, value)}

\* C11: when the stored string of the name casts to a value,
\* validated_value_of returns the error of the first validation of the list
\* that the value fails, and Ok of the value that value_of returns when the
\* value fails none (the empty list included).
C11_FirstInvalidReported ==
    (call.op = "validated_value_of" /\ value_of(call.T, call.opt_name).ok) =>
        LET value == value_of(call.T, call.opt_name).val IN
        IF Invalid(value) = {}
        THEN ret = value_of(call.T, call.opt_name)
        ELSE LET i == CHOOSE x \in Invalid(value) : \A y \in Invalid(value) : x <= y
             IN  ret = Err(OrderValidation_error(call.validations[i], value))

\* a value that fails two validations of the list, the first one reported
C11_Witness ==
    /\ call.op = "validated_value_of"
    /\ value_of(call.T, call.opt_name).ok
    /\ Len(call.validations) = 2
    /\ Invalid(value_of(call.T, call.opt_name).val) = {1, 2}
    /\ call.validations[1] # call.validations[2]
    /\ ~ret.ok
    /\ ret = Err(OrderValidation_error(call.validations[1],
                                       value_of(call.T, call.opt_name).val))

-----------------------------------------------------------------------------
(* C12: lookup and cast come before the validations                        *)

\* C12: when value_of of the name returns an error (the name has no stored
\* value, or the stored string does not cast to T), validated_value_of
\* returns that error, whatever validations it is given.
C12_ErrorBeforeValidation ==
    (call.op = "validated_value_of" /\ ~value_of(call.T, call.opt_name).ok) =>
        /\ ret = value_of(call.T, call.opt_name)
        /\ ret = (IF has_value(call.opt_name)
                  THEN Err(CastError(call.opt_name, values[call.opt_name]))
                  ELSE Err(NoValueError(call.opt_name)))

\* a stored string that does not cast, read with validations that 0 fails
C12_Witness ==
    /\ call.op = "validated_value_of"
    /\ has_value(call.opt_name)
    /\ ~from_str(call.T, values[call.opt_name]).some
    /\ Len(call.validations) > 0
    /\ \A i \in 1..Len(call.validations) :
            Validation_is_invalid(call.validations[i], 0)
    /\ ret = Err(CastError(call.opt_name, values[call.opt_name]))

-----------------------------------------------------------------------------
(* C13: value_of                                                           *)

\* the text of an error with that scope and message
Scoped(scope, msg) ==
    (IF scope = <<>> THEN <<>> ELSE scope \o <<":", " ">>) \o msg

\* C13: value_of::<T>(name) returns the error "name: does not have a value"
\* when the store has no entry for name, the error "name: unable to parse
\* '<stored string>'" when the entry does not cast to T, and Ok of the cast
\* value otherwise.
C13_ValueOf ==
    call.op = "value_of" =>
        IF call.opt_name \notin DOMAIN values
        THEN /\ ~ret.ok
             /\ ret.err.desc = Scoped(call.opt_name, <<"does not have a value">>)
        ELSE IF from_str(call.T, values[call.opt_name]).some
        THEN ret = Ok(from_str(call.T, values[call.opt_name]).val)
        ELSE /\ ~ret.ok
             /\ ret.err.desc =
                    Scoped(call.opt_name,
                           <<"unable to parse '">> \o values[call.opt_name] \o <<"'">>)

\* the stored string "a" of a registered option, read as an i32
C13_Witness ==
    /\ call.op = "value_of"
    /\ call.T = "i32"
    /\ call.opt_name \in Registered
    /\ has_value(call.opt_name)
    /\ values[call.opt_name] = <<"a">>
    /\ ~ret.ok
    /\ ret.err.desc = call.opt_name \o <<":", " ", "unable to parse '", "a", "'">>

-----------------------------------------------------------------------------
(* C14: optional_value_of                                                  *)

\* C14: optional_value_of::<T>(name) returns Ok(None) when the store has no
\* entry for name; when it has one, it returns Ok(Some(v)) where value_of
\* returns Ok(v), and the error of value_of where value_of returns one.
C14_OptionalValueOf ==
    call.op = "optional_value_of" =>
        IF call.opt_name \notin DOMAIN values
        THEN ret = Ok(None)
        ELSE IF value_of(call.T, call.opt_name).ok
        THEN ret = Ok(Some(value_of(call.T, call.opt_name).val))
        ELSE ret = value_of(call.T, call.opt_name)

\* a registered option that the parse left without a value, read as an i32
C14_Witness ==
    /\ call.op = "optional_value_of"
    /\ call.T = "i32"
    /\ parses > 0
    /\ call.opt_name \in Registered
    /\ call.opt_name \notin DOMAIN values
    /\ ~value_of(call.T, call.opt_name).ok
    /\ ret = Ok(None)

-----------------------------------------------------------------------------
(* C15: optional_validated_value_of                                        *)

\* C15: optional_validated_value_of::<T>(name, validations) returns Ok(None)
\* when the store has no entry for name, whatever the validations; when it
\* has one, it returns Ok(Some(v)) where validated_value_of returns Ok(v),
\* and the error of validated_value_of where that returns one.
C15_OptionalValidatedValueOf ==
    call.op = "optional_validated_value_of" =>
        LET r == validated_value_of(call.T, call.opt_name, call.validations) IN
        IF call.opt_name \notin DOMAIN values
        THEN ret = Ok(None)
        ELSE IF r.ok THEN ret = Ok(Some(r.val))
        ELSE ret = r

\* no stored value, read with validations: Ok(None) where
\* validated_value_of returns an error
C15_Witness ==
    /\ call.op = "optional_validated_value_of"
    /\ parses > 0
    /\ call.opt_name \in Registered
    /\ call.opt_name \notin DOMAIN values
    /\ Len(call.validations) > 0
    /\ ~validated_value_of(call.T, call.opt_name, call.validations).ok
    /\ ret = Ok(None)

-----------------------------------------------------------------------------
(* C16: values_of                                                          *)

\* the pieces of the stored string of the name of the last call
Pieces == Split(values[call.opt_name], SEPARATOR)

\* the positions of the pieces that do not cast to the type of the last call
Uncast == {i \in 1..Len(Pieces) : ~from_str(call.T, Pieces[i]).some}

\* C16: values_of::<T>(name) returns the error "name: does not have a
\* value" when the store has no entry for name.  Otherwise the pieces it
\* casts hold no ',' and make up the stored string when joined with ',';
\* it returns Ok of the cast pieces in order when they all cast, and else
\* the error "name: unable to parse '<piece>'" of the leftmost piece that
\* does not cast.
C16_ValuesOf ==
    call.op = "values_of" =>
        IF call.opt_name \notin DOMAIN values
        THEN /\ ~ret.ok
             /\ ret.err.desc = Scoped(call.opt_name, <<"does not have a value">>)
        ELSE /\ Join(Pieces, SEPARATOR) = values[call.opt_name]
             /\ \A i \in 1..Len(Pieces) :
                    \A k \in 1..Len(Pieces[i]) : Pieces[i][k] # SEPARATOR[1]
             /\ IF Uncast = {}
                THEN ret = Ok([i \in 1..Len(Pieces) |->
                                from_str(call.T, Pieces[i]).val])
                ELSE LET i == CHOOSE x \in Uncast : \A y \in Uncast : x <= y IN
                     /\ ~ret.ok
                     /\ ret.err.desc =
                            Scoped(call.opt_name,
                                   <<"unable to parse '">> \o Pieces[i] \o <<"'">>)

\* the stored string "0,a," read as i32 values: the second piece and the
\* third do not cast, the second is reported
C16_Witness ==
    /\ call.op = "values_of"
    /\ call.T = "i32"
    /\ has_value(call.opt_name)
    /\ values[call.opt_name] = <<"0", ",", "a", ",">>
    /\ Uncast = {2, 3}
    /\ ~ret.ok
    /\ ret.err.desc = call.opt_name \o <<":", " ", "unable to parse '", "a", "'">>

-----------------------------------------------------------------------------
(* C17: arguments the tokenizer rejects                                    *)

\* C17: a parse whose arguments the tokenizer rejects returns the error
\* "parse: <the tokenizer's message>" and leaves the store as it was (no
\* option is resolved).
C17_TokenizerErrorWrapped ==
    [][(/\ call'.op = "parse"
        /\ ~Options_parse(options, call'.raw_args).ok)
       => (/\ ~ret'.ok
           /\ ret'.err.desc =
                SCOPE_PARSE \o <<":", " ">>
                \o Fail_to_string(Options_parse(options, call'.raw_args).err)
           /\ values' = values)]_vars

\* an option that is not registered, given to a second parse that would
\* otherwise store a flag
C17_Witness ==
    /\ ParseErr
    /\ parses = 2
    /\ ~LastMatches.ok
    /\ LastMatches.err.kind = "UnrecognizedOption"
    /\ ret.err.desc = <<"p", "a", "r", "s", "e", ":", " ", "Unrecognized option: '">>
                      \o LastMatches.err.name \o <<"'.">>
    /\ values # EmptyMap
    /\ \E nm \in Registered : IsFlag(opts[nm])

\* an option that wants an argument ends the arguments
C17_WitnessArgumentMissing ==
    /\ ParseErr
    /\ ~LastMatches.ok
    /\ LastMatches.err.kind = "ArgumentMissing"

-----------------------------------------------------------------------------
(* C18: the scope of the error for a required option without a value       *)

\* the last parse failed after the tokenizer accepted the arguments: a
\* required option was left without a value
FailedInLoop == ParseErr /\ LastMatches.ok

\* a required option that the last parse resolved to no value
Unresolved(nm) ==
    /\ nm \in Registered
    /\ Opt_is_required(opts[nm])
    /\ ~Resolves(nm)

\* the text begins with that scope
HasScope(desc, scope) ==
    /\ Len(desc) >= Len(scope) + 2
    /\ SubSeq(desc, 1, Len(scope) + 2) = scope \o <<":", " ">>

\* C18 as claimed: when a parse fails because a required option has no
\* value after resolution, the scope of the error is the long name of that
\* option.
C18_ScopeIsLongName ==
    FailedInLoop =>
        \E nm \in Registered : Unresolved(nm) /\ HasScope(ret.err.desc, nm)

\* C18: when a parse fails because a required option has no value after
\* resolution, the scope of the error is "parse" and its message,
\* "Argument to option '<long name>' missing.", names that option.
C18_ScopeIsParse ==
    FailedInLoop =>
        /\ HasScope(ret.err.desc, SCOPE_PARSE)
        /\ \E nm \in Registered :
            /\ Unresolved(nm)
            /\ ret.err.desc =
                    <<"p", "a", "r", "s", "e", ":", " ", "Argument to option '">>
                    \o nm \o <<"' missing.">>

\* a Required SingleValue option given the empty string
C18_Witness ==
    /\ FailedInLoop
    /\ \E nm \in Registered :
        /\ RequiredSingle(nm)
        /\ Unresolved(nm)
        /\ opt_str(LastMatches.val, nm) = Some(<<>>)
        /\ ret.err.desc =
                <<"p", "a", "r", "s", "e", ":", " ", "Argument to option '">>
                \o nm \o <<"' missing.">>

-----------------------------------------------------------------------------
(* C19: the accessors write nothing                                        *)

AccessorOps ==
    {"has_value", "value_of", "optional_value_of", "values_of",
     "validated_value_of", "optional_validated_value_of"}

\* C19: a call of an accessor, whatever it returns, changes neither the
\* descriptors, nor their order, nor the tokenizer's options, nor the
\* store; and a call that repeats the call before it returns what that one
\* returned.
C19_AccessorsReadOnly ==
    [][call'.op \in AccessorOps
       => (/\ opts' = opts
           /\ opt_names' = opt_names
           /\ options' = options
           /\ values' = values
           /\ (call' = call => ret' = ret))]_vars

\* a stored value that casts and fails a validation, in a store that holds it
C19_Witness ==
    /\ call.op = "validated_value_of"
    /\ has_value(call.opt_name)
    /\ value_of(call.T, call.opt_name).ok
    /\ ~ret.ok
    /\ parses > 0

-----------------------------------------------------------------------------
(* C20: OrderValidation                                                    *)

\* the relation an order stands for, the value on the left
Holds(order, value, bound) ==
    \/ order = "GreaterThan" /\ value > bound
    \/ order = "GreaterThanOrEqual" /\ value >= bound
    \/ order = "LessThan" /\ value < bound
    \/ order = "LessThanOrEqual" /\ value <= bound

\* C20: OrderValidation::new(order, bound).is_valid(value) is true exactly
\* when value > bound for GreaterThan, value >= bound for
\* GreaterThanOrEqual, value < bound for LessThan and value <= bound for
\* LessThanOrEqual; is_invalid(value) is true exactly when it is not.
C20_OrderValidation ==
    /\ call.op = "is_valid" => (ret <=> Holds(call.order, call.value, call.bound))
    /\ call.op = "is_invalid" => (ret <=> ~Holds(call.order, call.value, call.bound))

\* 1 is greater than the bound 0
C20_Witness ==
    /\ call.op = "is_valid"
    /\ call.order = "GreaterThan"
    /\ call.bound = 0
    /\ call.value = 1
    /\ ret = TRUE

-----------------------------------------------------------------------------
(* C21: no call panics                                                     *)

\* C21: no call of flag, option, parse or an accessor panics: each one
\* returns, and a parse or an accessor that fails returns an Err.
C21_NoPanic == ~Panicked

-----------------------------------------------------------------------------
(* C26: no descriptor with an empty long name                              *)

\* C26: no descriptor of the registry has the empty string as its long
\* name, and the registry has no entry under the empty string.
C26_LongNameNotEmpty ==
    /\ <<>> \notin DOMAIN opts
    /\ \A i \in 1..Len(opt_names) : opt_names[i] # <<>>
    /\ \A nm \in DOMAIN opts : opts[nm].long_name # <<>>

-----------------------------------------------------------------------------
(* C22: the text of an ArgsError                                           *)

\* C22: the text of an error built from a scope, a message and a usage is
\* the scope followed by ": ", the message, then "\n\n" followed by the
\* usage; an empty scope is left out with its ": " and an empty usage with
\* its "\n\n"; ArgsError::new builds the text of an empty usage.
C22_ErrorText ==
    call.op \in {"ArgsError::new", "ArgsError::new_with_usage"} =>
        ret.desc =
            CASE call.scope = <<>> /\ call.usage = <<>> -> call.msg
              [] call.scope = <<>> /\ call.usage # <<>> ->
                    call.msg \o <<"\n", "\n">> \o call.usage
              [] call.scope # <<>> /\ call.usage = <<>> ->
                    call.scope \o <<":", " ">> \o call.msg
              [] call.scope # <<>> /\ call.usage # <<>> ->
                    call.scope \o <<":", " ">> \o call.msg
                    \o <<"\n", "\n">> \o call.usage

\* a usage and no scope
C22_Witness ==
    /\ call.op = "ArgsError::new_with_usage"
    /\ call.scope = <<>>
    /\ call.msg = <<"a">>
    /\ call.usage = <<"b">>
    /\ ret.desc = <<"a", "\n", "\n", "b">>

-----------------------------------------------------------------------------
(* C23: the option that the error of a parse names                         *)

\* what the scan of the last parse found, as matches
ScanMatches == [opts |-> options, vals |-> LastScan.val]

\* the positions of the registered options that are required and that the
\* arguments of the last parse leave without a value
Failing ==
    {i \in 1..Len(opt_names) :
        LET opt == opts[opt_names[i]]
            parsed == Opt_parse(opt, ScanMatches)
        IN  Opt_is_required(opt) /\ ~(parsed.some /\ parsed.val # <<>>)}

EarliestFailing == opt_names[CHOOSE i \in Failing : \A j \in Failing : i <= j]

\* the error says that this option has no value
ReportsOption(desc, nm) ==
    \/ desc = SCOPE_PARSE \o <<":", " ", "Argument to option '">> \o nm \o <<"' missing.">>
    \/ desc = SCOPE_PARSE \o <<":", " ", "Required option '">> \o nm \o <<"' missing.">>

\* C23 as claimed: when the arguments of a parse (well formed, no option
\* given twice) leave more than one required option without a value, the
\* error names the one that was registered first.
C23_EarliestFailingNamed ==
    (/\ AfterParse
     /\ LastScan.ok
     /\ \A nm \in Registered : Occurrences(nm) <= 1
     /\ Cardinality(Failing) > 1)
    => (~ret.ok /\ ReportsOption(ret.err.desc, EarliestFailing))

\* the tokenizer accepted the arguments of the parse, and more than one
\* required option is left without a value: the first one is named
EarliestNamedInLoop ==
    (AfterParse /\ LastMatches.ok /\ Failing # {})
    => (/\ ~ret.ok
        /\ ret.err.desc =
                <<"p", "a", "r", "s", "e", ":", " ", "Argument to option '">>
                \o EarliestFailing \o <<"' missing.">>)

\* C23: when the tokenizer accepts the arguments of a parse (every option
\* registered as Required occurs in them), the options are resolved in the
\* order of registration and the error names the first required option
\* left without a value; and a parse of the same arguments that follows,
\* with the same options registered, returns what this one returned.
C23_EarliestFailingInLoop ==
    /\ EarliestNamedInLoop
    /\ (AfterParse /\ ~Panicked) => Args_parse(call.raw_args).ret = ret

\* two required options given the empty string, the first registered named
C23_Witness ==
    /\ ParseErr
    /\ LastMatches.ok
    /\ Cardinality(Failing) = 2
    /\ \A nm \in Registered : RequiredSingle(nm)
    /\ ret.err.desc =
            <<"p", "a", "r", "s", "e", ":", " ", "Argument to option '">>
            \o opt_names[1] \o <<"' missing.">>

-----------------------------------------------------------------------------
(* C24: the registry only grows                                            *)

\* s is the beginning of t
IsPrefix(s, t) == Len(s) <= Len(t) /\ SubSeq(t, 1, Len(s)) = s

\* no name is twice in the sequence
NoDuplicate(s) == \A i, j \in 1..Len(s) : s[i] = s[j] => i = j

\* C24: no call of flag, option, parse or an accessor removes or moves a
\* registered long name or lets it be there twice (the list of the names
\* only grows at its end), and none removes or replaces a descriptor.
C24_RegistryAppendOnly ==
    [][/\ IsPrefix(opt_names, opt_names')
       /\ NoDuplicate(opt_names')
       /\ \A nm \in DOMAIN opts : nm \in DOMAIN opts' /\ opts'[nm] = opts[nm]]_vars

\* two options registered, a registration ignored, then a parse and a call
\* of an accessor
C24_Witness ==
    /\ call.op \in AccessorOps
    /\ parses > 0
    /\ Len(opt_names) = 2
    /\ Len(options) = 2
    /\ NoDuplicate(opt_names)

-----------------------------------------------------------------------------
(* C25: what the store holds                                               *)

\* an option that takes a value, registered Optional and without a default
OptionalNoDefault(nm) ==
    /\ nm \in Registered
    /\ opts[nm].kind = "Single"
    /\ opts[nm].has_arg = "Yes"
    /\ opts[nm].occur = "Optional"
    /\ ~opts[nm].default.some

\* C25: every key of the store is a registered long name and every value
\* of the store is a non-empty string; and after a parse whose arguments
\* the tokenizer accepted, an option registered Optional and without a
\* default that the arguments do not hold has no key in the store.
C25_StoreEntries ==
    /\ \A k \in DOMAIN values : k \in Registered /\ values[k] # <<>>
    /\ (AfterParse /\ LastMatches.ok) =>
            \A nm \in Registered :
                (OptionalNoDefault(nm) /\ Occurrences(nm) = 0) => ~has_value(nm)

-----------------------------------------------------------------------------
(* C27: required options after a successful parse                          *)

\* C27: after a parse that returned Ok, every registered option whose
\* is_required() is true has a key in the store.
C27_RequiredHaveValues ==
    ParseOk =>
        \A nm \in Registered : Opt_is_required(opts[nm]) => has_value(nm)

\* a first parse that returned Ok with a Required SingleValue option and a
\* MultiValue option registered
C27_Witness ==
    /\ ParseOk
    /\ parses = 1
    /\ \E nm \in Registered : RequiredSingle(nm) /\ has_value(nm)
    /\ \E nm \in Registered : IsMulti(opts[nm]) /\ has_value(nm)

-----------------------------------------------------------------------------
(* C28: a SingleValue option given the empty string                        *)

\* every registered option but nm has a value in the matches or is not
\* required
OthersPass(m, nm) ==
    \A k \in Registered \ {nm} :
        \/ ~Opt_is_required(opts[k])
        \/ (Opt_parse(opts[k], m).some /\ Opt_parse(opts[k], m).val # <<>>)

\* the text is the error of a missing argument
IsMissingArgument(desc) ==
    \E k \in Registered :
        desc = <<"p", "a", "r", "s", "e", ":", " ", "Argument to option '">>
               \o k \o <<"' missing.">>

\* C28: when the tokenizer accepts the arguments of a parse and they give a
\* SingleValue option the empty string, the parse writes nothing under the
\* name of the option, not its default either; it returns the error of a
\* missing argument when the option is required, and Ok when it is not and
\* no other option fails.
C28_EmptyValueIsNoValue ==
    [][(call'.op = "parse" /\ Options_parse(options, call'.raw_args).ok)
       => \A nm \in Registered :
            (/\ IsSingleValue(opts[nm])
             /\ opt_str(Options_parse(options, call'.raw_args).val, nm) = Some(<<>>))
            => (/\ MapGet(values', nm) = MapGet(values, nm)
                /\ Single_is_required(opts[nm])
                   => (~ret'.ok /\ IsMissingArgument(ret'.err.desc))
                /\ (/\ ~Single_is_required(opts[nm])
                    /\ OthersPass(Options_parse(options, call'.raw_args).val, nm))
                   => ret'.ok)]_vars

\* an option with a default given the empty string: Ok, and nothing stored
C28_Witness ==
    /\ ParseOk
    /\ parses = 1
    /\ \E nm \in Registered :
        /\ IsSingleValue(opts[nm])
        /\ opts[nm].default = Some(<<"d">>)
        /\ opt_str(LastMatches.val, nm) = Some(<<>>)
        /\ ~has_value(nm)

-----------------------------------------------------------------------------
(* C29: the descriptors and the list of the names                          *)

\* C29: the keys of the map of the descriptors are the names of the list
\* of the registered names, and no parse returns the error "Unrecognized
\* option" for a registered name (the lookup of the loop never misses).
C29_NamesAreKeys ==
    /\ DOMAIN opts = {opt_names[i] : i \in 1..Len(opt_names)}
    /\ (AfterParse /\ ~Panicked /\ ~ret.ok) =>
            \A i \in 1..Len(opt_names) :
                ret.err.desc #
                    <<"p", "a", "r", "s", "e", ":", " ", "Unrecognized option: '">>
                    \o opt_names[i] \o <<"'.">>

\* a parse that went through the loop for two registered options
C29_Witness ==
    /\ ParseOk
    /\ Len(opt_names) = 2
    /\ Cardinality(DOMAIN opts) = 2
    /\ \A i \in 1..2 : opt_names[i] \in DOMAIN opts

-----------------------------------------------------------------------------
(* C30: the store after arguments the tokenizer rejects                    *)

\* C30: a parse whose arguments the tokenizer rejects returns an error and
\* leaves every entry of the store as it was, so that the accessors read
\* the values of the parse before it.
C30_RejectedParseKeepsStore ==
    [][(/\ call'.op = "parse"
        /\ ~Options_parse(options, call'.raw_args).ok)
       => (/\ ~ret'.ok
           /\ DOMAIN values' = DOMAIN values
           /\ \A nm \in DOMAIN values : values'[nm] = values[nm])]_vars

\* a second parse that the tokenizer rejected, and the value of the first
\* parse read as an i32
C30_Witness ==
    /\ ParseErr
    /\ parses = 2
    /\ ~LastMatches.ok
    /\ \E nm \in Registered :
        /\ IsSingleValue(opts[nm])
        /\ has_value(nm)
        /\ value_of("i32", nm) = Ok(1)

====
